---- MODULE Spec2Model ----
(***************************************************************************)
(* A model of the taint dataflow analysis of src/analysis/taint_analysis.rs *)
(* (TaintAnalysis and its TransferFunction), together with the forward      *)
(* dataflow engine that drives it through the AnalysisDomain / Analysis     *)
(* hooks.                                                                   *)
(*                                                                          *)
(* Three state machines share the variables:                                *)
(*   Spec        applies one hook of the analysis (statement effect,        *)
(*               terminator effect followed by the call-return effect, or   *)
(*               one of the per-role handlers) to a drawn taint set; the    *)
(*               handlers t_visit_sink and t_visit_source_destination are   *)
(*               applied on their own, as t_visit_call calls neither;       *)
(*   SpecEngine  runs the forward fixpoint iteration over a drawn body,     *)
(*               FairSpecEngine being the same with the loop's progress;    *)
(*   SpecMerge   joins the exit states of two predecessors into the entry   *)
(*               set of one block.                                          *)
(***************************************************************************)
EXTENDS Integers, Sequences, FiniteSets, TLC

VARIABLES
    state,        \* the BitSet<Local> a TransferFunction mutates (self.state)
    findings,     \* diagnostics handed to session.emit_err, in order
    last,         \* Spec: the hook that was applied, its input and the set before it
    body,         \* SpecEngine: the function body, block -> [statements, terminator]
    entry_sets,   \* engine: block -> taint set at block entry
    dirty_queue,  \* engine: work queue of blocks (FIFO without duplicates)
    done,         \* engine: the fixpoint loop has ended
    joins,        \* engine: number of joins that changed an entry set
    exits,        \* SpecMerge: predecessor -> its exit state
    pending,      \* SpecMerge: predecessors whose exit state is still to be joined
    target        \* SpecMerge: the block the predecessors flow into

vars == <<state, findings, last, body, entry_sets, dirty_queue, done, joins,
          exits, pending, target>>

---------------------------------------------------------------------------
(* Bounds of the model *)

NumLocals == 2
NumBlocks == 3
MaxArgs == 2

Locals == 0 .. (NumLocals - 1)
Blocks == 0 .. (NumBlocks - 1)
START_BLOCK == 0

---------------------------------------------------------------------------
(* MIR shapes read by the analysis *)

Constant == [tag |-> "Constant"]
Copy(l) == [tag |-> "Copy", local |-> l]
Move(l) == [tag |-> "Move", local |-> l]

Operands == {Constant} \cup {Copy(l) : l \in Locals} \cup {Move(l) : l \in Locals}

\* Operand::place(): Some(place) for Copy and Move, None for a constant
HasPlace(op) == op.tag \in {"Copy", "Move"}

OpaqueKinds == {"Repeat", "Ref", "ThreadLocalRef", "AddressOf", "Len", "Cast",
                "NullaryOp", "Discriminant", "Aggregate"}

Rvalues ==
    {[kind |-> k, a |-> x] : k \in {"Use", "UnaryOp"}, x \in Operands}
    \cup {[kind |-> k, a |-> x, b |-> y] :
             k \in {"BinaryOp", "CheckedBinaryOp"}, x \in Operands, y \in Operands}
    \cup {[kind |-> k] : k \in OpaqueKinds}

Statements ==
    {[kind |-> "Assign", place |-> [local |-> l], rvalue |-> rv] :
        l \in Locals, rv \in Rvalues}
    \cup {[kind |-> "Nop"]}

\* The callee of a call is a constant operand naming a function item.
FnNames == {"source_fn", "sink_fn", "sanitizer_fn", "other_fn"}
Func(name) == [tag |-> "Constant", fn |-> name]

\* The role catalog (AttrInfo): callee name -> role.
Lookup(name) ==
    CASE name = "source_fn" -> "Source"
      [] name = "sink_fn" -> "Sink"
      [] name = "sanitizer_fn" -> "Sanitizer"
      [] OTHER -> "None"

NoDestination == [some |-> FALSE]
Destination(l, bb) == [some |-> TRUE, place |-> [local |-> l], target |-> bb]

RECURSIVE SeqsUpTo(_, _)
SeqsUpTo(S, n) ==
    IF n = 0 THEN {<<>>}
    ELSE LET shorter == SeqsUpTo(S, n - 1)
         IN shorter \cup {Append(s, x) : s \in {t \in shorter : Len(t) = n - 1}, x \in S}

ArgLists == SeqsUpTo(Operands, MaxArgs)

Goto(t) == [kind |-> "Goto", target |-> t]
SwitchInt(t, u) == [kind |-> "SwitchInt", targets |-> <<t, u>>]
Return == [kind |-> "Return"]
AssertTerm(t) == [kind |-> "Assert", target |-> t]
Unreachable == [kind |-> "Unreachable"]
Call(name, args, dest, span) ==
    [kind |-> "Call", func |-> Func(name), args |-> args, destination |-> dest,
     fn_span |-> span]

---------------------------------------------------------------------------
(* TaintDomain<Local> for BitSet<Local> (super::taint_domain) *)

mark_tainted(s, v) == s \cup {v}
mark_untainted(s, v) == s \ {v}
is_tainted(s, v) == v \in s
propagate(s, old, new) ==
    IF is_tainted(s, old) THEN mark_tainted(s, new) ELSE mark_untainted(s, new)

---------------------------------------------------------------------------
(* TransferFunction: tf = [state |-> taint set, emitted |-> diagnostics]  *)

TF(s, e) == [state |-> s, emitted |-> e]

\* Variants of t_visit_assign, each with one rule changed.
PlaceOperands(rvalue) ==
    IF rvalue.kind \in OpaqueKinds THEN <<>>
    ELSE LET ops == IF rvalue.kind \in {"BinaryOp", "CheckedBinaryOp"}
                    THEN <<rvalue.a, rvalue.b>> ELSE <<rvalue.a>>
         IN SelectSeq(ops, HasPlace)

\* an assignment of constants leaves the destination as it was
t_visit_assign_keeps_on_constant(tf, place, rvalue) ==
    LET ops == PlaceOperands(rvalue)
    IN IF rvalue.kind \in OpaqueKinds \/ ops = <<>> THEN tf
       ELSE IF \E i \in 1 .. Len(ops) : ops[i].local \in tf.state
            THEN TF(tf.state \cup {place.local}, tf.emitted)
            ELSE TF(tf.state \ {place.local}, tf.emitted)

\* a binary operation of two variables reads only its first operand
t_visit_assign_first_operand_only(tf, place, rvalue) ==
    LET ops == PlaceOperands(rvalue)
    IN IF rvalue.kind \in OpaqueKinds THEN tf
       ELSE IF ops # <<>> /\ ops[1].local \in tf.state
            THEN TF(tf.state \cup {place.local}, tf.emitted)
            ELSE TF(tf.state \ {place.local}, tf.emitted)

\* a single-operand assignment adds the operand's taint and never removes any
t_visit_assign_unions_on_propagate(tf, place, rvalue) ==
    LET ops == PlaceOperands(rvalue)
    IN IF rvalue.kind \in OpaqueKinds THEN tf
       ELSE IF \E i \in 1 .. Len(ops) : ops[i].local \in tf.state
            THEN TF(tf.state \cup {place.local}, tf.emitted)
            ELSE IF Len(ops) = 1 THEN tf
                 ELSE TF(tf.state \ {place.local}, tf.emitted)

t_visit_assign(tf, place, rvalue) ==
    LET s == tf.state
        dst == place.local
        set(x) == TF(x, tf.emitted)
    IN CASE rvalue.kind \in {"Use", "UnaryOp"} /\ rvalue.a.tag = "Constant" ->
              set(mark_untainted(s, dst))
         [] rvalue.kind = "Use" /\ HasPlace(rvalue.a) ->
              set(propagate(s, rvalue.a.local, dst))
         [] rvalue.kind \in {"BinaryOp", "CheckedBinaryOp"} ->
              (CASE rvalue.a.tag = "Constant" /\ rvalue.b.tag = "Constant" ->
                      set(mark_untainted(s, dst))
                 [] HasPlace(rvalue.a) /\ HasPlace(rvalue.b) ->
                      IF is_tainted(s, rvalue.a.local) \/ is_tainted(s, rvalue.b.local)
                      THEN set(mark_tainted(s, dst))
                      ELSE set(mark_untainted(s, dst))
                 [] HasPlace(rvalue.a) /\ rvalue.b.tag = "Constant" ->
                      set(propagate(s, rvalue.a.local, dst))
                 [] rvalue.a.tag = "Constant" /\ HasPlace(rvalue.b) ->
                      set(propagate(s, rvalue.b.local, dst)))
         [] rvalue.kind = "UnaryOp" /\ HasPlace(rvalue.a) ->
              set(propagate(s, rvalue.a.local, dst))
         [] rvalue.kind \in OpaqueKinds -> tf

visit_statement(tf, statement) ==
    IF statement.kind = "Assign"
    THEN t_visit_assign(tf, statement.place, statement.rvalue)
    ELSE tf

\* The callee name is read (func is a constant in every call drawn here, so the
\* expect() does not fire) and nothing else happens.
t_visit_call(tf, func, args, destination, span) ==
    LET name == func.fn IN tf

t_visit_source_destination(tf, destination) ==
    IF destination.some
    THEN TF(mark_tainted(tf.state, destination.place.local), tf.emitted)
    ELSE tf

t_visit_sink(tf, name, args, span) ==
    IF \E i \in 1 .. Len(args) : HasPlace(args[i]) /\ is_tainted(tf.state, args[i].local)
    THEN TF(tf.state, Append(tf.emitted, [fn_name |-> name, span |-> span]))
    ELSE tf

\* Variant of visit_terminator: a return resets the taint set.
visit_terminator_return_clears(tf, terminator) ==
    IF terminator.kind = "Return" THEN TF({}, tf.emitted) ELSE tf

visit_terminator(tf, terminator) ==
    CASE terminator.kind = "Goto" -> tf
      [] terminator.kind = "SwitchInt" -> tf
      [] terminator.kind = "Return" -> tf
      [] terminator.kind = "Call" ->
           t_visit_call(tf, terminator.func, terminator.args,
                        terminator.destination, terminator.fn_span)
      [] terminator.kind = "Assert" -> tf
      [] OTHER -> tf

---------------------------------------------------------------------------
(* impl AnalysisDomain / Analysis for TaintAnalysis *)

bottom_value == {}

initialize_start_block(s) == s

apply_statement_effect(tf, statement) == visit_statement(tf, statement)

apply_terminator_effect(tf, terminator) == visit_terminator(tf, terminator)

apply_call_return_effect(tf, block, func, args, return_place) == tf

\* Variants of Join: the incoming set replaces the entry set; every join reports
\* a change.
Join_overwrites(old, new) == [set |-> new, changed |-> new # old]
Join_always_changed(old, new) == [set |-> old \cup new, changed |-> TRUE]

\* type Domain = BitSet<Local>: the join is the union and reports whether the
\* left-hand set changed.
Join(old, new) == [set |-> old \cup new, changed |-> ~(new \subseteq old)]

---------------------------------------------------------------------------
(* Spec: one hook applied to a drawn taint set *)

\* The calls block bb can end with: the call site is bb, the continuation the
\* block after it.
CallsAt(bb) ==
    {Call(n, args, d, bb) :
        n \in FnNames, args \in ArgLists,
        d \in {NoDestination}
              \cup {Destination(l, (bb + 1) % NumBlocks) : l \in Locals}}

TerminatorsAt(bb) ==
    {Goto(t) : t \in Blocks}
    \cup {SwitchInt(t, u) : t \in Blocks, u \in Blocks}
    \cup {Return, Unreachable}
    \cup {AssertTerm(t) : t \in Blocks}
    \cup CallsAt(bb)

\* The state carried along the edge to the successor: the terminator effect and,
\* on the return edge of a call, the call-return effect after it.
TerminatorEdgeEffect(tf, bb, terminator) ==
    LET after == apply_terminator_effect(tf, terminator)
    IN IF terminator.kind = "Call" /\ terminator.destination.some
       THEN apply_call_return_effect(after, bb, terminator.func, terminator.args,
                                     terminator.destination.place)
       ELSE after

EngineIdle ==
    /\ body = <<>>
    /\ entry_sets = <<>>
    /\ dirty_queue = <<>>
    /\ done = FALSE
    /\ joins = 0

MergeIdle ==
    /\ exits = <<>>
    /\ pending = {}
    /\ target = START_BLOCK

Init ==
    /\ state \in SUBSET Locals
    /\ findings = <<>>
    /\ last = [op |-> "init"]
    /\ EngineIdle
    /\ MergeIdle

Applied(op, insn, tf) ==
    /\ state' = tf.state
    /\ findings' = tf.emitted
    /\ last' = [op |-> op, insn |-> insn, pre |-> state]
    /\ UNCHANGED <<body, entry_sets, dirty_queue, done, joins, exits, pending, target>>

ApplyStatement ==
    /\ last.op = "init"
    /\ \E statement \in Statements :
         Applied("statement", statement,
                 apply_statement_effect(TF(state, findings), statement))

ApplyTerminator ==
    /\ last.op = "init"
    /\ \E bb \in Blocks :
         \E terminator \in TerminatorsAt(bb) :
           Applied("terminator", terminator,
                   TerminatorEdgeEffect(TF(state, findings), bb, terminator))

ApplySink ==
    /\ last.op = "init"
    /\ \E name \in FnNames, args \in ArgLists, span \in Blocks :
         Applied("sink", [name |-> name, args |-> args, span |-> span],
                 t_visit_sink(TF(state, findings), name, args, span))

ApplySourceDestination ==
    /\ last.op = "init"
    /\ \E d \in {NoDestination} \cup {Destination(l, bb) : l \in Locals, bb \in Blocks} :
         Applied("source_destination", d,
                 t_visit_source_destination(TF(state, findings), d))

Next ==
    \/ ApplyStatement
    \/ ApplyTerminator
    \/ ApplySink
    \/ ApplySourceDestination

Spec == Init /\ [][Next]_vars

---------------------------------------------------------------------------
(* SpecEngine: the forward fixpoint iteration over one body *)

NextBlock(bb) == (bb + 1) % NumBlocks

\* The call a block of a drawn body can end with, one shape per callee:
\*   x = source_fn();  _ = sink_fn(x);  x = sanitizer_fn(x);  _ = other_fn(x)
\* with x local 0 and _ the last local; the call returns to the next block.
EngineCall(name, bb) ==
    LET x == 0
        other == NumLocals - 1
    IN CASE name = "source_fn" -> Call(name, <<>>, Destination(x, NextBlock(bb)), bb)
         [] name = "sink_fn" ->
              Call(name, <<Copy(x)>>, Destination(other, NextBlock(bb)), bb)
         [] name = "sanitizer_fn" ->
              Call(name, <<Move(x)>>, Destination(x, NextBlock(bb)), bb)
         [] OTHER -> Call(name, <<Copy(x)>>, Destination(other, NextBlock(bb)), bb)

EngineStatements ==
    {[kind |-> "Assign", place |-> [local |-> NumLocals - 1],
      rvalue |-> [kind |-> "BinaryOp", a |-> Copy(0), b |-> Copy(NumLocals - 1)]],
     [kind |-> "Assign", place |-> [local |-> 0],
      rvalue |-> [kind |-> "Use", a |-> Constant]]}

BlockData(statements, terminator) ==
    [statements |-> statements, terminator |-> terminator]

\* The blocks a drawn body is made of.
BlockChoices(bb) ==
    {BlockData(<<>>, t) :
        t \in {Return, AssertTerm(NextBlock(bb))}
              \cup {Goto(u) : u \in Blocks}
              \cup {SwitchInt(NextBlock(bb), u) : u \in Blocks}
              \cup {EngineCall(n, bb) : n \in FnNames}}
    \cup {BlockData(<<st>>, Goto(NextBlock(bb))) : st \in EngineStatements}

\* Terminator::successors(), in order
Successors(terminator) ==
    CASE terminator.kind = "Goto" -> <<terminator.target>>
      [] terminator.kind = "SwitchInt" -> terminator.targets
      [] terminator.kind = "Assert" -> <<terminator.target>>
      [] terminator.kind = "Call" ->
           IF terminator.destination.some
           THEN <<terminator.destination.target>> ELSE <<>>
      [] OTHER -> <<>>

\* traversal::reverse_postorder: depth-first from the start block, successors in
\* order; only the blocks reachable from the start block appear.
RECURSIVE PostorderVisit(_, _, _), PostorderVisitAll(_, _, _)
PostorderVisit(b, bb, acc) ==
    IF bb \in acc.visited THEN acc
    ELSE LET below == PostorderVisitAll(b, Successors(b[bb + 1].terminator),
                                        [acc EXCEPT !.visited = @ \cup {bb}])
         IN [below EXCEPT !.order = Append(@, bb)]
PostorderVisitAll(b, succs, acc) ==
    IF succs = <<>> THEN acc
    ELSE PostorderVisitAll(b, Tail(succs), PostorderVisit(b, Head(succs), acc))

Reverse(s) == [i \in 1 .. Len(s) |-> s[Len(s) + 1 - i]]

reverse_postorder(b) ==
    Reverse(PostorderVisit(b, START_BLOCK, [visited |-> {}, order |-> <<>>]).order)

Range(s) == {s[i] : i \in 1 .. Len(s)}

\* WorkQueue::insert: push at the back unless already queued
QueueInsert(q, bb) == IF bb \in Range(q) THEN q ELSE Append(q, bb)

\* The closure the engine hands to join_state_into_successors_of:
\*   let set_changed = entry_sets[target].join(state);
\*   if set_changed { dirty_queue.insert(target) }
\* eng = [entry_sets, dirty_queue, joins]
PropagateTo(eng, t, exit_state) ==
    LET j == Join(eng.entry_sets[t], exit_state)
    IN [entry_sets |-> [eng.entry_sets EXCEPT ![t] = j.set],
        dirty_queue |-> IF j.changed THEN QueueInsert(eng.dirty_queue, t)
                        ELSE eng.dirty_queue,
        joins |-> IF j.changed THEN eng.joins + 1 ELSE eng.joins]

RECURSIVE PropagateAll(_, _, _)
PropagateAll(eng, targets, exit_state) ==
    IF targets = <<>> THEN eng
    ELSE PropagateAll(PropagateTo(eng, Head(targets), exit_state), Tail(targets),
                      exit_state)

\* Forward::apply_effects_in_block: every statement in order, then the terminator
RECURSIVE ApplyStatements(_, _)
ApplyStatements(tf, statements) ==
    IF statements = <<>> THEN tf
    ELSE ApplyStatements(apply_statement_effect(tf, Head(statements)), Tail(statements))

apply_effects_in_block(tf, bb_data) ==
    apply_terminator_effect(ApplyStatements(tf, bb_data.statements), bb_data.terminator)

\* Forward::join_state_into_successors_of: the exit state goes to every
\* successor; on the return edge of a call the call-return effect comes first.
\* Returns the engine's sets and queue and the state the transfer function ends in.
join_state_into_successors_of(eng, tf, bb, bb_data) ==
    LET t == bb_data.terminator
    IN IF t.kind = "Call"
       THEN IF t.destination.some
            THEN LET ret == apply_call_return_effect(tf, bb, t.func, t.args,
                                                     t.destination.place)
                 IN [eng |-> PropagateTo(eng, t.destination.target, ret.state),
                     tf |-> ret]
            ELSE [eng |-> eng, tf |-> tf]
       ELSE [eng |-> PropagateAll(eng, Successors(t), tf.state), tf |-> tf]

\* A bound on the joins that can change an entry set: every such join adds at
\* least one local to the entry set of one block.
MaxJoinApplications == NumLocals * NumBlocks

RECURSIVE BodiesOfLength(_)
BodiesOfLength(n) ==
    IF n = 0 THEN {<<>>}
    ELSE {Append(b, c) : b \in BodiesOfLength(n - 1), c \in BlockChoices(n - 1)}

\* body[bb + 1] is block bb
Bodies == BodiesOfLength(NumBlocks)

InitEngine ==
    /\ body \in Bodies
    /\ entry_sets = [bb \in Blocks |->
                        IF bb = START_BLOCK THEN initialize_start_block(bottom_value)
                        ELSE bottom_value]
    /\ dirty_queue = reverse_postorder(body)
    /\ state = bottom_value
    /\ findings = <<>>
    /\ done = FALSE
    /\ joins = 0
    /\ last = [op |-> "init"]
    /\ MergeIdle

\* One iteration of `while let Some(bb) = dirty_queue.pop()`
Iterate ==
    /\ ~done
    /\ dirty_queue # <<>>
    /\ joins <= MaxJoinApplications
    /\ LET bb == Head(dirty_queue)
           bb_data == body[bb + 1]
           eng == [entry_sets |-> entry_sets, dirty_queue |-> Tail(dirty_queue),
                   joins |-> joins]
           tf == apply_effects_in_block(TF(entry_sets[bb], findings), bb_data)
           out == join_state_into_successors_of(eng, tf, bb, bb_data)
       IN /\ entry_sets' = out.eng.entry_sets
          /\ dirty_queue' = out.eng.dirty_queue
          /\ joins' = out.eng.joins
          /\ state' = out.tf.state
          /\ findings' = out.tf.emitted
    /\ UNCHANGED <<body, done, last, exits, pending, target>>

\* The queue is empty: the loop ends and the results are final.
Finish ==
    /\ ~done
    /\ dirty_queue = <<>>
    /\ done' = TRUE
    /\ UNCHANGED <<state, findings, last, body, entry_sets, dirty_queue, joins,
                   exits, pending, target>>

NextEngine ==
    \/ Iterate
    \/ Finish

SpecEngine == InitEngine /\ [][NextEngine]_vars

\* The loop is sequential code: an iteration that can run does run.
FairSpecEngine == SpecEngine /\ WF_vars(NextEngine)

---------------------------------------------------------------------------
(* SpecMerge: two predecessors flow into one block *)

PredecessorPairs(t) ==
    {ps \in SUBSET (Blocks \ {t}) : Cardinality(ps) = 2}

InitMerge ==
    /\ target \in Blocks
    /\ \E ps \in PredecessorPairs(target) :
         /\ exits \in [ps -> SUBSET Locals]
         /\ pending = ps
    /\ entry_sets = [bb \in Blocks |-> bottom_value]
    /\ dirty_queue = <<>>
    /\ joins = 0
    /\ state = bottom_value
    /\ findings = <<>>
    /\ last = [op |-> "init"]
    /\ body = <<>>
    /\ done = FALSE

\* The engine propagates the exit state of one predecessor to the block.
JoinPredecessor ==
    /\ \E p \in pending :
         LET out == PropagateTo([entry_sets |-> entry_sets,
                                 dirty_queue |-> dirty_queue,
                                 joins |-> joins], target, exits[p])
         IN /\ entry_sets' = out.entry_sets
            /\ dirty_queue' = out.dirty_queue
            /\ joins' = out.joins
            /\ state' = exits[p]
            /\ pending' = pending \ {p}
    /\ UNCHANGED <<findings, last, body, done, exits, target>>

NextMerge == JoinPredecessor

SpecMerge == InitMerge /\ [][NextMerge]_vars

---------------------------------------------------------------------------
(* Properties of the hooks, under Spec *)

LastIsAssign == last.op = "statement" /\ last.insn.kind = "Assign"
LastDst == last.insn.place.local
LastRvalue == last.insn.rvalue

LastIsCall == last.op = "terminator" /\ last.insn.kind = "Call"
LastRole == Lookup(last.insn.func.fn)

IsBinary(rv) == rv.kind \in {"BinaryOp", "CheckedBinaryOp"}

\* Use(Constant), UnaryOp(_, Constant), BinaryOp/CheckedBinaryOp(_, Constant, Constant)
ConstantOnly(rv) ==
    \/ rv.kind \in {"Use", "UnaryOp"} /\ rv.a.tag = "Constant"
    \/ IsBinary(rv) /\ rv.a.tag = "Constant" /\ rv.b.tag = "Constant"

BothVariables(rv) == IsBinary(rv) /\ HasPlace(rv.a) /\ HasPlace(rv.b)

\* Use(src), UnaryOp(_, src), or a binary operation of src and a constant
OneVariable(rv) ==
    \/ rv.kind \in {"Use", "UnaryOp"} /\ HasPlace(rv.a)
    \/ IsBinary(rv) /\ HasPlace(rv.a) /\ rv.b.tag = "Constant"
    \/ IsBinary(rv) /\ rv.a.tag = "Constant" /\ HasPlace(rv.b)

TheVariable(rv) == IF HasPlace(rv.a) THEN rv.a.local ELSE rv.b.local

\* The same operand read the other way: Copy for Move and Move for Copy
Flip(op) ==
    CASE op.tag = "Copy" -> Move(op.local)
      [] op.tag = "Move" -> Copy(op.local)
      [] OTHER -> op

FlipRvalue(rv) ==
    IF IsBinary(rv) THEN [rv EXCEPT !.a = Flip(rv.a), !.b = Flip(rv.b)]
    ELSE [rv EXCEPT !.a = Flip(rv.a)]

AnyArgTainted(s, args) ==
    \E i \in 1 .. Len(args) : HasPlace(args[i]) /\ args[i].local \in s

\* C1: a call to a Sink emits exactly one finding, for that call site, when an
\* argument is a variable tainted at the call, and none otherwise.
C1_SinkCallEmitsFinding ==
    (LastIsCall /\ LastRole = "Sink") =>
        findings = IF AnyArgTainted(last.pre, last.insn.args)
                   THEN <<[fn_name |-> last.insn.func.fn, span |-> last.insn.fn_span]>>
                   ELSE <<>>

\* C3: after a call to a Sanitizer with a destination, the destination is
\* untainted in the state carried to the continuation block, whatever the
\* arguments and the destination's status before the call.
C3_SanitizerClearsDestination ==
    (LastIsCall /\ LastRole = "Sanitizer" /\ last.insn.destination.some) =>
        last.insn.destination.place.local \notin state

\* C5: after dst := expr with expr built from constants only, dst is untainted,
\* whatever the state before.
C5_ConstantAssignKills ==
    (LastIsAssign /\ ConstantOnly(LastRvalue)) => LastDst \notin state

C5_Witness ==
    /\ LastIsAssign
    /\ ConstantOnly(LastRvalue)
    /\ LastDst \in last.pre
    /\ LastDst \notin state

\* C6: after dst := a op b with both operands variables, dst is tainted exactly
\* when a or b was tainted before, also when dst is a or b.
C6_BinaryOpUnion ==
    (LastIsAssign /\ BothVariables(LastRvalue)) =>
        (LastDst \in state <=>
            (LastRvalue.a.local \in last.pre \/ LastRvalue.b.local \in last.pre))

C6_Witness ==
    /\ LastIsAssign
    /\ BothVariables(LastRvalue)
    /\ LastDst = LastRvalue.a.local
    /\ LastRvalue.a.local \notin last.pre
    /\ LastRvalue.b.local \in last.pre
    /\ LastDst \in state

\* C7: after dst := expr with exactly one variable operand src, dst has the status
\* src had before (a copy, not a union), and reading src by Copy or by Move gives
\* the same state.
C7_SingleOperandCopies ==
    (LastIsAssign /\ OneVariable(LastRvalue)) =>
        /\ LastDst \in state <=> TheVariable(LastRvalue) \in last.pre
        /\ state = apply_statement_effect(
                       TF(last.pre, <<>>),
                       [last.insn EXCEPT !.rvalue = FlipRvalue(LastRvalue)]).state

C7_Witness ==
    /\ LastIsAssign
    /\ OneVariable(LastRvalue)
    /\ LastRvalue.a.tag = "Move"
    /\ LastDst \in last.pre
    /\ TheVariable(LastRvalue) \notin last.pre
    /\ LastDst \notin state

\* C10: a jump, switch, return or assertion leaves the taint set as it was, and
\* so does the argument check of a sink, whether or not it emits a finding.
C10_TerminatorsInert ==
    ( \/ last.op = "terminator" /\
           last.insn.kind \in {"Goto", "SwitchInt", "Return", "Assert"}
      \/ last.op = "sink" ) =>
        state = last.pre

C10_Witness ==
    /\ last.op = "sink"
    /\ Len(findings) = 1
    /\ state = last.pre
    /\ state # {}

---------------------------------------------------------------------------
(* Properties of the engine's merge, under SpecMerge *)

Joined == DOMAIN exits \ pending

\* C8: the entry set of a block with two predecessors holds exactly the locals
\* tainted in the exit state of a predecessor that has been joined in; once both
\* are, a local tainted on one path only is tainted, one tainted on neither is not.
C8_JoinIsUnion ==
    \A v \in Locals :
        v \in entry_sets[target] <=> \E p \in Joined : v \in exits[p]

C8_Witness ==
    /\ pending = {}
    /\ \E v \in Locals :
         /\ Cardinality({p \in DOMAIN exits : v \in exits[p]}) = 1
         /\ v \in entry_sets[target]
         /\ v \notin state
    /\ \E w \in Locals :
         /\ \A p \in DOMAIN exits : w \notin exits[p]
         /\ w \notin entry_sets[target]

---------------------------------------------------------------------------
(* Properties of the fixpoint iteration, under SpecEngine / FairSpecEngine *)

Reachable == Range(reverse_postorder(body))

IsCallTo(bb, role) ==
    /\ body[bb + 1].terminator.kind = "Call"
    /\ Lookup(body[bb + 1].terminator.func.fn) = role

\* The state block bb sends along its edge to each successor, from its entry set.
EdgeState(bb) ==
    TerminatorEdgeEffect(ApplyStatements(TF(entry_sets[bb], <<>>),
                                         body[bb + 1].statements),
                         bb, body[bb + 1].terminator).state

\* No transfer and no join changes any entry set any more.
IsFixpoint ==
    \A bb \in Reachable :
        \A t \in Range(Successors(body[bb + 1].terminator)) :
            EdgeState(bb) \subseteq entry_sets[t]

\* C2: the destination of a call to a Source is tainted in the state with which
\* the continuation block is entered.
C2_SourceTaintsDestination ==
    done =>
        \A bb \in Reachable :
            (IsCallTo(bb, "Source") /\ body[bb + 1].terminator.destination.some) =>
                body[bb + 1].terminator.destination.place.local
                    \in entry_sets[body[bb + 1].terminator.destination.target]

\* x = source_fn(); _ = sink_fn(x); return
IsSourceThenSink(b) ==
    /\ b[1] = BlockData(<<>>, EngineCall("source_fn", 0))
    /\ b[2] = BlockData(<<>>, EngineCall("sink_fn", 1))
    /\ b[3] = BlockData(<<>>, Return)

\* C4: the analysis of source call, sink call of the result, return ends with
\* exactly one finding, at the sink call.
C4_SourceToSinkFinding ==
    (done /\ IsSourceThenSink(body)) =>
        findings = <<[fn_name |-> "sink_fn", span |-> 1]>>

HasCycle(b) ==
    \E bb \in Reachable : START_BLOCK \in Range(Successors(b[bb + 1].terminator))

====
